---- MODULE Spec2Model ----
(***************************************************************************)
(* Problem/Solution data model of the two routing problems of the          *)
(* repository:                                                             *)
(*   src/src/base.py  sequencing with orientation (containers, directions) *)
(*   src/src/tsp.py   closed tour (path through points, back to start)     *)
(*                                                                         *)
(* Every method of Solution is an operator that takes the problem and the  *)
(* solution object (a record of its fields) and returns what the method    *)
(* returns; a mutating method returns the record [sol, err]: the object    *)
(* after the call and the exception that left it ("none" when the call     *)
(* returned).  Python lists are sequences, so position k of the code is    *)
(* element k + 1 here; units, nodes and directions keep the code's         *)
(* 0-based numbers.  The tsp.py methods carry the prefix tsp_.             *)
(***************************************************************************)
EXTENDS Integers, Sequences, FiniteSets, TLC

VARIABLES variant, problem, heap, this, twin, err, last, wor, steps

vars == <<variant, problem, heap, this, twin, err, last, wor, steps>>

(***************************************************************************)
(* Bounds of the model.                                                    *)
(***************************************************************************)
\* largest number n of containers of an orientation instance
MaxN == 2
\* the orientation instances are the texts InputText(n, seed), seed in 0..MaxSeed
MaxSeed == 5
\* every cost of an orientation instance is in 0..MaxCost
MaxCost == 2
\* largest number of points of a closed-tour instance
MaxNodes == 4
\* largest kick strength passed to perturb
MaxKs == 1
\* largest number of steps asked of step and perturb on a closed tour: the
\* floats of dist drift with every step, so the tours have no end of states
MaxTspSteps == 2

\* largest number of containers of an instance on which a solution is copied
MaxCopyN == 2
\* the orientation instances on which a solution is copied have seed 0..MaxCopySeed
MaxCopySeed == 1
\* largest number of points of an instance on which a solution is copied
MaxCopyNodes == 3
\* what the calls on a solution and its copy may cost together: a step
\* costs one, perturb(ks) costs ks, an add costs one once the copy is made
MaxCopySteps == 1

\* largest number of containers of an instance on which the first element
\* of the sequence is followed
MaxFirstN == 3

(***************************************************************************)
(* Python values.                                                          *)
(***************************************************************************)
\* Optional[x]: None is the empty tuple, a value x is <<x>>
None == <<>>

Some(x) == <<x>>

\* list[k] is defined for -len <= k < len
PyIndexOk(len, k) == -len <= k /\ k < len

\* list[k] of a Python list, negative k counting from the end
PyGet(list, k) == list[(IF k < 0 THEN k + Len(list) ELSE k) + 1]

\* a bound of a slice list[i:j], clipped to the list as Python clips it
PySliceBound(len, k) ==
    IF k < 0 THEN (IF k + len < 0 THEN 0 ELSE k + len)
    ELSE IF k > len THEN len ELSE k

\* the elements of a list, as a set
Elems(list) == {list[k] : k \in 1..Len(list)}

\* min() of a non-empty collection of numbers
Min(S) == CHOOSE x \in S : \A y \in S : x <= y

RECURSIVE SumOver(_, _)
\* the sum of f[x] over the elements x of the set S
SumOver(S, f) ==
    IF S = {} THEN 0
    ELSE LET x == CHOOSE y \in S : TRUE IN f[x] + SumOver(S \ {x}, f)

\* max() of a non-empty collection of numbers
Max(S) == CHOOSE x \in S : \A y \in S : x >= y

\* list(range(a, b))
range(a, b) == [k \in 1..(IF b > a THEN b - a ELSE 0) |-> a + k - 1]

(***************************************************************************)
(* A Python set of ints >= 0 that a for loop runs through: the hash table   *)
(* CPython keeps for it. A slot holds a key, Unused or Dummy (the mark a    *)
(* removed key leaves); hash(k) = k. The order of a for loop is the order   *)
(* of the slots, which depends on what was removed and added before.        *)
(***************************************************************************)
Unused == -1

Dummy == -2

LINEAR_PROBES == 9

PySet_MINSIZE == 8

\* the slots looked at from slot i before the next jump
ProbeRun(mask, i) == IF i + LINEAR_PROBES <= mask THEN i..(i + LINEAR_PROBES) ELSE {i}

\* perturb >>= PERTURB_SHIFT
Perturbed(perturb) == perturb \div 32

\* i = (i * 5 + 1 + perturb) & mask
NextProbe(mask, i, perturb) == (i * 5 + 1 + perturb) % (mask + 1)

\* set(): the empty set
set_new ==
    [mask |-> PySet_MINSIZE - 1, table |-> [i \in 0..(PySet_MINSIZE - 1) |-> Unused],
     fill |-> 0, used |-> 0]

\* the elements of a set
Keys(so) == {so.table[i] : i \in 0..so.mask} \ {Unused, Dummy}

\* len(so)
set_len(so) == so.used

RECURSIVE iter_from(_, _)
iter_from(so, i) ==
    IF i > so.mask THEN <<>>
    ELSE (IF so.table[i] >= 0 THEN <<so.table[i]>> ELSE <<>>) \o iter_from(so, i + 1)

\* "for k in so": the keys in the order of their slots
iter(so) == iter_from(so, 0)

RECURSIVE set_insert_clean_from(_, _, _, _, _)
set_insert_clean_from(table, mask, key, i, perturb) ==
    LET free == {j \in ProbeRun(mask, i) : table[j] = Unused}
    IN IF free # {} THEN [table EXCEPT ![Min(free)] = key]
       ELSE set_insert_clean_from(table, mask, key,
                NextProbe(mask, i, Perturbed(perturb)), Perturbed(perturb))

\* a key put into a table that has no dummies and does not hold it
set_insert_clean(table, mask, key) ==
    set_insert_clean_from(table, mask, key, key % (mask + 1), key)

RECURSIVE NewSize(_, _)
\* the first size, doubling from newsize, that is larger than minused
NewSize(newsize, minused) ==
    IF newsize <= minused THEN NewSize(2 * newsize, minused) ELSE newsize

RECURSIVE InsertAllClean(_, _, _)
\* the keys of the sequence keys put into the table one after the other
InsertAllClean(table, mask, keys) ==
    IF keys = <<>> THEN table
    ELSE InsertAllClean(set_insert_clean(table, mask, Head(keys)), mask, Tail(keys))

\* the table rebuilt with more than minused slots: the keys are put in
\* again in the order of their slots, the dummies are dropped
set_table_resize(so, minused) ==
    LET newsize == NewSize(PySet_MINSIZE, minused)
    IN [mask |-> newsize - 1,
        table |-> InsertAllClean([i \in 0..(newsize - 1) |-> Unused], newsize - 1, iter(so)),
        fill |-> so.used, used |-> so.used]

RECURSIVE set_lookkey_from(_, _, _, _)
set_lookkey_from(so, key, i, perturb) ==
    LET hits == {j \in ProbeRun(so.mask, i) : so.table[j] = Unused \/ so.table[j] = key}
    IN IF hits # {} THEN Min(hits)
       ELSE set_lookkey_from(so, key,
                NextProbe(so.mask, i, Perturbed(perturb)), Perturbed(perturb))

\* the slot of key, or the unused slot its search ends in
set_lookkey(so, key) == set_lookkey_from(so, key, key % (so.mask + 1), key)

\* key in so
set_contains(so, key) == so.table[set_lookkey(so, key)] = key

RECURSIVE set_add_from(_, _, _, _, _)
\* so.add(key) from slot i on: the search ends at the key or at an unused
\* slot; freeslot is the last dummy passed (Unused: none), and the key goes
\* there when there is one
set_add_from(so, key, i, perturb, freeslot) ==
    LET run == ProbeRun(so.mask, i)
        hits == {j \in run : so.table[j] = Unused \/ so.table[j] = key}
        passed == {j \in run : so.table[j] = Dummy /\ (hits # {} => j < Min(hits))}
        free == IF passed # {} THEN Max(passed) ELSE freeslot
    IN IF hits = {}
       THEN set_add_from(so, key, NextProbe(so.mask, i, Perturbed(perturb)),
                         Perturbed(perturb), free)
       ELSE IF so.table[Min(hits)] = key THEN so
       ELSE IF free # Unused
       THEN [so EXCEPT !.used = @ + 1, !.table[free] = key]
       ELSE LET put == [so EXCEPT !.fill = @ + 1, !.used = @ + 1, !.table[Min(hits)] = key]
            IN IF put.fill * 5 < put.mask * 3 THEN put
               ELSE set_table_resize(put, IF put.used > 50000 THEN put.used * 2
                                          ELSE put.used * 4)

\* so.add(key)
set_add(so, key) == set_add_from(so, key, key % (so.mask + 1), key, Unused)

\* so.remove(key) of a key that is in so: its slot becomes a dummy
set_remove(so, key) ==
    [so EXCEPT !.used = @ - 1, !.table[set_lookkey(so, key)] = Dummy]

RECURSIVE set_of(_)
\* set(keys) of a list: the keys added one after the other
set_of(keys) ==
    IF keys = <<>> THEN set_new
    ELSE set_add(set_of(SubSeq(keys, 1, Len(keys) - 1)), keys[Len(keys)])

\* copy(so): a new table; the slots are taken over as they are when it has
\* the size of the old one and so has no dummies, else the keys are put in
\* in the order of their slots
set_copy(so) ==
    LET empty == IF so.used * 5 >= (PySet_MINSIZE - 1) * 3
                 THEN set_table_resize(set_new, so.used * 2) ELSE set_new
    IN IF empty.mask = so.mask /\ so.fill = so.used
       THEN [mask |-> so.mask, table |-> so.table, fill |-> so.fill, used |-> so.used]
       ELSE [mask |-> empty.mask,
             table |-> InsertAllClean(empty.table, empty.mask, iter(so)),
             fill |-> so.used, used |-> so.used]

RECURSIVE set_discard_all(_, _)
\* so.discard(k) for every k of keys
set_discard_all(so, keys) ==
    IF keys = <<>> THEN so
    ELSE set_discard_all(IF set_contains(so, Head(keys)) THEN set_remove(so, Head(keys)) ELSE so,
                         Tail(keys))

\* so - other: a copy of so with the keys of other removed when so is more
\* than four times as large, else the keys of so that are not in other,
\* added to a new set in the order of their slots
set_difference(so, other) ==
    IF so.used \div 4 > other.used
    THEN set_discard_all(set_copy(so), iter(other))
    ELSE set_of(SelectSeq(iter(so), LAMBDA k : ~set_contains(other, k)))

\* the result of a mutating call: the object after it and the exception raised
Ret(s, e) == [sol |-> s, err |-> e]

(***************************************************************************)
(* base.py: Component, LocalMove, Problem.                                 *)
(***************************************************************************)
Component(node, direction) == [node |-> node, direction |-> direction]

LocalMove(i, j, i_dir, j_dir) == [i |-> i, j |-> j, i_dir |-> i_dir, j_dir |-> j_dir]

\* The number in column col (0-based) of line idx (1-based, after the line
\* holding n) of the instance text number seed: seed 0 is the all-zero
\* instance, the other seeds spread the costs 0..MaxCost over the tables.
Cell(seed, idx, col) ==
    ((seed * (idx * idx + col * col + idx * col + 1)) \div 2) % (MaxCost + 1)

\* The text of an instance: n, then 4 + 4n lines of n integers.
InputText(n, seed) ==
    [n |-> n,
     lines |-> [idx \in 1..(4 + 4 * n) |-> [c \in 1..n |-> Cell(seed, idx, c - 1)]]]

\* mutant of TableRowOfLine: the blocks are stored in the order they are read
TableRowOfLine_in_reading_order(n, idx) ==
    IF idx < n + 5 THEN <<0, idx - 5>>
    ELSE IF idx < 2 * n + 5 THEN <<1, idx - n - 5>>
    ELSE IF idx < 3 * n + 5 THEN <<2, idx - 2 * n - 5>>
    ELSE <<3, idx - 3 * n - 5>>

\* Which table row the line idx >= 5 of the text is stored in:
\* <<index of the n-by-n table, row>>.
TableRowOfLine(n, idx) ==
    IF idx < n + 5 THEN <<0, idx - 5>>
    ELSE IF idx < 2 * n + 5 THEN <<1, idx - n - 5>>
    ELSE IF idx < 3 * n + 5 THEN <<3, idx - 2 * n - 5>>
    ELSE <<2, idx - 3 * n - 5>>

from_textio(f) ==
    LET n == f.n
        row(idx) == [u \in 0..(n - 1) |-> f.lines[idx][u + 1]]
        lineOf(t, a) == CHOOSE idx \in 5..(4 + 4 * n) : TableRowOfLine(n, idx) = <<t, a>>
    IN [n |-> n,
        depot_to_container |-> [d \in 0..1 |-> row(1 + d)],
        container_to_plant |-> [d \in 0..1 |-> row(3 + d)],
        container_to_container |->
            [t \in 0..3 |-> [a \in 0..(n - 1) |-> row(lineOf(t, a))]]]

empty_solution(p) ==
    [containers |-> <<>>, directions |-> <<>>, picked |-> {},
     not_picked |-> set_of(range(0, p.n)), obj_value |-> 0]

(***************************************************************************)
(* base.py: Solution.                                                      *)
(***************************************************************************)
\* copy() of the Solution s on the heap h, where s holds the addresses of
\* its lists and sets: every copy(x) puts a new list or set with the
\* elements of x at a new address; obj_value is a number and is passed as
\* it is.  The result is the heap after the call and the new Solution.
copy(h, s) ==
    LET h_1 == Append(h, h[s.containers])
        h_2 == Append(h_1, h[s.directions])
        h_3 == Append(h_2, h[s.picked])
        h_4 == Append(h_3, set_copy(h[s.not_picked]))
    IN [heap |-> h_4,
        obj |-> [containers |-> Len(h_1), directions |-> Len(h_2), picked |-> Len(h_3),
                 not_picked |-> Len(h_4), obj_value |-> s.obj_value]]

\* mutant of is_feasible: the containers are counted with their repetitions
\* and a solution of one container too few passes
is_feasible_one_short(p, s) == Len(s.containers) >= p.n - 1

is_feasible(p, s) == Cardinality(Elems(s.containers)) = p.n

\* mutant of objective: the route from the last container to the plant is left out
objective_without_plant(p, s) ==
    IF set_len(s.not_picked) > 0 THEN None ELSE Some(s.obj_value)

objective(p, s) ==
    IF set_len(s.not_picked) > 0 THEN None
    ELSE Some(s.obj_value
              + p.container_to_plant[PyGet(s.directions, -1)][PyGet(s.containers, -1)])

get_minimal_connections(p, containers) ==
    LET options(dest) ==
            {p.container_to_container[dir_idx][dep_con][dest] :
                dir_idx \in 0..3, dep_con \in containers \ {dest}}
        incoming == [dest \in containers |->
                        IF options(dest) # {} THEN Min(options(dest)) ELSE 0]
        to_plant == {p.container_to_plant[dir_idx][dep_con] :
                        dir_idx \in 0..1, dep_con \in containers}
    IN SumOver(containers, incoming) + Min(to_plant)

lower_bound(p, s) ==
    IF set_len(s.not_picked) = 0 THEN None
    ELSE Some(s.obj_value + get_minimal_connections(p, Keys(s.not_picked)))

\* mutant of add_moves: the containers already picked are offered as well
add_moves_every_container(s) ==
    {Component(container, direction) :
        container \in s.picked \cup Keys(s.not_picked), direction \in 0..1}

\* the components add_moves() yields
add_moves(s) == {Component(container, direction) :
                    container \in Keys(s.not_picked), direction \in 0..1}

\* the moves local_moves() yields
local_moves(p) ==
    UNION {{LocalMove(idx_1, idx_2, dir_idx \div 2, dir_idx % 2) :
                idx_2 \in idx_1..(p.n - 1), dir_idx \in 0..3} :
            idx_1 \in 0..(p.n - 1)}

\* the two rows heuristic_add_move() compares: the costs of going on to each
\* container in direction 0 and in direction 1
heuristic_candidates(p, s) ==
    IF Len(s.containers) = 0
    THEN <<p.depot_to_container[0], p.depot_to_container[1]>>
    ELSE LET dir_idx_0 == 2 * PyGet(s.directions, -1) + 0
             dir_idx_1 == 2 * PyGet(s.directions, -1) + 1
         IN <<p.container_to_container[dir_idx_0][PyGet(s.containers, -1)],
              p.container_to_container[dir_idx_1][PyGet(s.containers, -1)]>>

RECURSIVE heuristic_loop(_, _, _)
\* the loop "for idx in self.not_picked" of heuristic_add_move() over the
\* indices todo, best being the dict best_candidate: idx and direction are
\* None or Some(number)
heuristic_loop(candidates, todo, best) ==
    IF todo = <<>> THEN best
    ELSE LET idx == Head(todo)
             best_0 == IF candidates[1][idx] < best.val
                       THEN [val |-> candidates[1][idx], idx |-> Some(idx), direction |-> Some(0)]
                       ELSE best
             best_1 == IF candidates[2][idx] < best_0.val
                       THEN [val |-> candidates[2][idx], idx |-> Some(idx), direction |-> Some(1)]
                       ELSE best_0
         IN heuristic_loop(candidates, Tail(todo), best_1)

\* best_candidate at the end of heuristic_add_move(); the first val is the
\* largest entry of the elementwise sum of the two rows
heuristic_best_candidate(p, s) ==
    LET candidates == heuristic_candidates(p, s)
        val == Max({candidates[1][idx] + candidates[2][idx] : idx \in 0..(p.n - 1)})
    IN heuristic_loop(candidates, iter(s.not_picked),
                      [val |-> val, idx |-> None, direction |-> None])

\* heuristic_add_move(): None, or Some(component); the component is
\* Component(None, None) when the loop never replaced best_candidate
heuristic_add_move(p, s) ==
    IF set_len(s.not_picked) = 0 THEN None
    ELSE LET best == heuristic_best_candidate(p, s)
         IN IF best.idx = None THEN Some(Component(None, None))
            ELSE Some(Component(best.idx[1], best.direction[1]))

connection_cost(p, last_component, new_component) ==
    IF last_component.node = -1
    THEN p.depot_to_container[new_component.direction][new_component.node]
    ELSE IF new_component.node = p.n
    THEN p.container_to_plant[last_component.direction][last_component.node]
    ELSE LET dir_idx == 2 * last_component.direction + new_component.direction
         IN p.container_to_container[dir_idx][last_component.node][new_component.node]

add(p, s, component) ==
    LET cost == IF Len(s.containers) = 0
                THEN p.depot_to_container[component.direction][component.node]
                ELSE connection_cost(p,
                        Component(PyGet(s.containers, -1), PyGet(s.directions, -1)),
                        component)
        appended == [s EXCEPT !.obj_value = @ + cost,
                              !.containers = Append(@, component.node),
                              !.directions = Append(@, component.direction),
                              !.picked = @ \cup {component.node}]
    IN IF set_contains(s.not_picked, component.node)
       THEN Ret([appended EXCEPT !.not_picked = set_remove(@, component.node)], "none")
       ELSE Ret(appended, "KeyError")

\* mutant of step: the swap and the first orientation are made one position
\* before i
step_one_early(p, s, lmove) ==
    LET len == Len(s.containers)
        swapped == [s.containers EXCEPT
                        ![(IF lmove.i - 1 < 0 THEN lmove.i - 1 + len ELSE lmove.i - 1) + 1] =
                            PyGet(s.containers, lmove.j),
                        ![(IF lmove.j < 0 THEN lmove.j + len ELSE lmove.j) + 1] =
                            PyGet(s.containers, lmove.i - 1)]
        i_set == [s.directions EXCEPT
                        ![(IF lmove.i - 1 < 0 THEN lmove.i - 1 + len ELSE lmove.i - 1) + 1] =
                            lmove.i_dir]
        j_set == [i_set EXCEPT
                        ![(IF lmove.j < 0 THEN lmove.j + len ELSE lmove.j) + 1] =
                            lmove.j_dir]
    IN IF ~PyIndexOk(len, lmove.i - 1) \/ ~PyIndexOk(len, lmove.j)
       THEN Ret(s, "IndexError")
       ELSE Ret([s EXCEPT !.containers = swapped, !.directions = j_set], "none")

step(p, s, lmove) ==
    LET len == Len(s.containers)
        swapped == [s.containers EXCEPT
                        ![(IF lmove.i < 0 THEN lmove.i + len ELSE lmove.i) + 1] =
                            PyGet(s.containers, lmove.j),
                        ![(IF lmove.j < 0 THEN lmove.j + len ELSE lmove.j) + 1] =
                            PyGet(s.containers, lmove.i)]
        i_set == [s.directions EXCEPT
                        ![(IF lmove.i < 0 THEN lmove.i + len ELSE lmove.i) + 1] =
                            lmove.i_dir]
        j_set == [i_set EXCEPT
                        ![(IF lmove.j < 0 THEN lmove.j + len ELSE lmove.j) + 1] =
                            lmove.j_dir]
    IN IF ~PyIndexOk(len, lmove.i) \/ ~PyIndexOk(len, lmove.j)
       THEN Ret(s, "IndexError")
       ELSE Ret([s EXCEPT !.containers = swapped, !.directions = j_set], "none")

objective_incr_local(p, s, lmove) ==
    LET i == lmove.i
        j == lmove.j
        pc_1 == IF i > 0 THEN PyGet(s.containers, i - 1) ELSE -1
        pd_1 == IF i > 0 THEN PyGet(s.directions, i - 1) ELSE None
        cc_1 == PyGet(s.containers, i)
        cd_1 == PyGet(s.directions, i)
        fc_1 == IF i < p.n - 1 THEN PyGet(s.containers, i + 1) ELSE p.n
        fd_1 == IF i < p.n - 1 THEN PyGet(s.directions, i + 1) ELSE None
        pc_2 == IF j > 0 THEN PyGet(s.containers, j - 1) ELSE -1
        pd_2 == IF j > 0 THEN PyGet(s.directions, j - 1) ELSE None
        cc_2 == PyGet(s.containers, j)
        cd_2 == PyGet(s.directions, j)
        fc_2 == IF j < p.n - 1 THEN PyGet(s.containers, j + 1) ELSE p.n
        fd_2 == IF j < p.n - 1 THEN PyGet(s.directions, j + 1) ELSE None
        obj_value_old ==
              connection_cost(p, Component(pc_1, pd_1), Component(cc_1, cd_1))
            + connection_cost(p, Component(cc_1, cd_1), Component(fc_1, fd_1))
            + connection_cost(p, Component(pc_2, pd_2), Component(cc_2, cd_2))
            + connection_cost(p, Component(cc_2, cd_2), Component(fc_2, fd_2))
        obj_value_new ==
              connection_cost(p, Component(pc_1, pd_1), Component(cc_2, lmove.j_dir))
            + connection_cost(p, Component(cc_2, lmove.j_dir), Component(fc_1, fd_1))
            + connection_cost(p, Component(pc_2, pd_2), Component(cc_1, lmove.i_dir))
            + connection_cost(p, Component(cc_1, lmove.i_dir), Component(fc_2, fd_2))
    IN obj_value_new - obj_value_old

\* The exception of add(Component(None, None)): on an empty solution the
\* table rows indexed by None give arrays, None is appended to containers
\* and directions and put into picked, and not_picked.remove(None) raises;
\* otherwise connection_cost raises on int("<d>None", 2) before anything
\* is changed.
add_none_raises(s) == IF Len(s.containers) = 0 THEN "KeyError" ELSE "ValueError"

RECURSIVE heuristic_construction(_, _, _)
\* The construction driver on s after adds adds: c = heuristic_add_move();
\* stop if c is None; add(c). The result: the exception ("none" when the
\* loop stopped by itself), the number of adds that returned and the
\* solution after the last of them.
heuristic_construction(p, s, adds) ==
    LET c == heuristic_add_move(p, s)
    IN IF c = None THEN [sol |-> s, err |-> "none", adds |-> adds]
       ELSE IF heuristic_best_candidate(p, s).idx = None
       THEN [sol |-> s, err |-> add_none_raises(s), adds |-> adds]
       ELSE LET r == add(p, s, c[1])
            IN IF r.err # "none" THEN [sol |-> s, err |-> r.err, adds |-> adds]
               ELSE heuristic_construction(p, r.sol, adds + 1)

\* mutant of lower_bound_incr_add: the component's container is not put
\* back into not_picked
lower_bound_incr_add_not_restored(p, s, component) ==
    IF set_len(s.not_picked) = 1 THEN [sol |-> s, err |-> "none", value |-> Some(0)]
    ELSE IF ~set_contains(s.not_picked, component.node)
    THEN [sol |-> s, err |-> "KeyError", value |-> None]
    ELSE [sol |-> [s EXCEPT !.not_picked = set_remove(@, component.node)], err |-> "none",
          value |-> Some(0)]

\* mutant of lower_bound_incr_add: with one container left the cost of going
\* on to the component is returned
lower_bound_incr_add_last_cost(p, s, component) ==
    [sol |-> s, err |-> "none",
     value |-> Some(IF Len(s.containers) = 0
                    THEN p.depot_to_container[component.direction][component.node]
                    ELSE connection_cost(p,
                            Component(PyGet(s.containers, -1), PyGet(s.directions, -1)),
                            component))]

\* lower_bound_incr_add(component): the value returned (None when the call
\* raises), the exception, and the object after the call, which takes the
\* container out of not_picked and puts it back
lower_bound_incr_add(p, s, component) ==
    LET new_obj_value_1 ==
            IF Len(s.containers) = 0
            THEN p.depot_to_container[component.direction][component.node]
            ELSE s.obj_value
                 + connection_cost(p,
                        Component(PyGet(s.containers, -1), PyGet(s.directions, -1)),
                        component)
        removed == [s EXCEPT !.not_picked = set_remove(@, component.node)]
        new_obj_value_2 == new_obj_value_1
                           + get_minimal_connections(p, Keys(removed.not_picked))
        restored == [removed EXCEPT !.not_picked = set_add(@, component.node)]
    IN IF set_len(s.not_picked) = 1
       THEN [sol |-> s, err |-> "none", value |-> Some(0)]
       ELSE IF ~set_contains(s.not_picked, component.node)
       THEN [sol |-> s, err |-> "KeyError", value |-> None]
       ELSE [sol |-> restored, err |-> "none",
             value |-> Some(new_obj_value_2 - lower_bound(p, restored)[1])]

\* the moves random_local_move() can return: the first move of
\* random_local_moves_wor(), whatever the three shuffles give
random_local_move(p) ==
    UNION {{LocalMove(idx_1, idx_2, dir_idx \div 2, dir_idx % 2) :
                idx_2 \in idx_1..(p.n - 1), dir_idx \in 0..3} :
            idx_1 \in 0..(p.n - 1)}

RECURSIVE Flatten(_)
\* the items a nest of loops yields: the sequences of seqs one after the other
Flatten(seqs) == IF seqs = <<>> THEN <<>> ELSE Head(seqs) \o Flatten(Tail(seqs))

RECURSIVE Fact(_)
Fact(k) == IF k <= 1 THEN 1 ELSE k * Fact(k - 1)

RECURSIVE shuffle_from(_, _, _)
\* the loop of random.shuffle(x) from position i (0-based) down to 1:
\* j = randbelow(i + 1), the draws being the mixed-radix digits of k
shuffle_from(x, i, k) ==
    IF i < 1 THEN x
    ELSE LET j == k % (i + 1)
         IN shuffle_from([x EXCEPT ![i + 1] = x[j + 1], ![j + 1] = x[i + 1]],
                         i - 1, k \div (i + 1))

\* mutant of shuffle: x[i] is overwritten by x[j], x[j] is kept
shuffle_overwrite(x, k) ==
    IF Len(x) < 2 THEN x
    ELSE [x EXCEPT ![Len(x)] = x[(k % Len(x)) + 1]]

\* random.shuffle(x), its draws given by k: k in 0..(Fact(Len(x)) - 1)
\* gives every permutation of x once
shuffle(x, k) == shuffle_from(x, Len(x) - 1, k % Fact(Len(x)))

\* the four branches on dir_idx of local_moves() and random_local_moves_wor()
move_of_dir(idx_1, idx_2, dir_idx) == LocalMove(idx_1, idx_2, dir_idx \div 2, dir_idx % 2)

\* the moves local_moves() yields, in the order it yields them
local_moves_list(p) ==
    Flatten([a \in 1..p.n |->
        LET idx_1 == range(0, p.n)[a]
            range_2 == range(idx_1, p.n)
        IN Flatten([b \in 1..Len(range_2) |->
                [d \in 1..4 |-> move_of_dir(idx_1, range_2[b], range(0, 4)[d])]])])

\* the generator object of random_local_moves_wor() before its first next():
\* the three shuffled lists and the place of each loop in its list
wor_new ==
    [started |-> FALSE, done |-> FALSE, range_1 |-> <<>>, pos_1 |-> 0,
     range_2 |-> <<>>, pos_2 |-> 0, range_dir |-> <<>>, pos_dir |-> 0]

\* next(g) on the generator g of random_local_moves_wor(): the code runs on
\* to its next yield. value is Some(move), or None when the loops are over
\* (StopIteration). A list is shuffled when its loop is entered; k_1, k_2
\* and k_dir give the draws of the shuffles of range_1, range_2 and
\* range_dir that this call makes.
random_local_moves_wor(p, g, k_1, k_2, k_dir) ==
    LET range_1 == IF g.started THEN g.range_1 ELSE shuffle(range(0, p.n), k_1)
        yield(pos_1, range_2, pos_2, range_dir, pos_dir) ==
            [gen |-> [started |-> TRUE, done |-> FALSE, range_1 |-> range_1,
                      pos_1 |-> pos_1, range_2 |-> range_2, pos_2 |-> pos_2,
                      range_dir |-> range_dir, pos_dir |-> pos_dir],
             value |-> Some(move_of_dir(range_1[pos_1], range_2[pos_2], range_dir[pos_dir]))]
        for_idx_2(pos_1, range_2, pos_2) ==
            yield(pos_1, range_2, pos_2, shuffle(range(0, 4), k_dir), 1)
        for_idx_1(pos_1) ==
            IF pos_1 > Len(range_1)
            THEN [gen |-> [g EXCEPT !.started = TRUE, !.done = TRUE, !.range_1 = range_1],
                  value |-> None]
            ELSE for_idx_2(pos_1, shuffle(range(range_1[pos_1], p.n), k_2), 1)
    IN IF g.done THEN [gen |-> g, value |-> None]
       ELSE IF ~g.started THEN for_idx_1(1)
       ELSE IF g.pos_dir < Len(g.range_dir)
       THEN yield(g.pos_1, g.range_2, g.pos_2, g.range_dir, g.pos_dir + 1)
       ELSE IF g.pos_2 < Len(g.range_2)
       THEN for_idx_2(g.pos_1, g.range_2, g.pos_2 + 1)
       ELSE for_idx_1(g.pos_1 + 1)

RECURSIVE perturb(_, _, _)
\* the outcomes of perturb(ks): ks random moves applied one after the other,
\* the first exception ending the loop
perturb(p, s, ks) ==
    IF ks = 0 THEN {Ret(s, "none")}
    ELSE UNION {LET r == step(p, s, m)
                IN IF r.err # "none" THEN {r} ELSE perturb(p, r.sol, ks - 1) :
                    m \in random_local_move(p)}

(***************************************************************************)
(* Python floats: IEEE 754 doubles.  A natural number of any size is the   *)
(* sequence of its digits to the base Radix, lowest first, without leading *)
(* zeros (0 is <<>>).  A float is 0 or (-1)^sign * man * 2^exp with        *)
(* 2^52 <= man < 2^53; every operation gives the exact result rounded to   *)
(* the nearest float, ties to the even mantissa.  The exponent is not      *)
(* bounded: the values here stay far from the ends of a double's range.    *)
(***************************************************************************)
Radix == 8192

RadixBits == 13

DBL_MANT_DIG == 53

RECURSIVE BigNorm(_)
\* a without leading zeros
BigNorm(a) == IF a # <<>> /\ a[Len(a)] = 0 THEN BigNorm(SubSeq(a, 1, Len(a) - 1)) ELSE a

BigDigit(a, k) == IF k <= Len(a) THEN a[k] ELSE 0

RECURSIVE BigCarry(_, _)
\* the digits of the number whose columns (any integers) are cols
BigCarry(cols, carry) ==
    IF cols = <<>>
    THEN IF carry = 0 THEN <<>> ELSE <<carry % Radix>> \o BigCarry(<<>>, carry \div Radix)
    ELSE <<(Head(cols) + carry) % Radix>>
         \o BigCarry(Tail(cols), (Head(cols) + carry) \div Radix)

\* the natural number k
BigOfInt(k) == BigCarry(<<>>, k)

BigAdd(a, b) ==
    BigNorm(BigCarry([k \in 1..Max({Len(a), Len(b)}) |-> BigDigit(a, k) + BigDigit(b, k)], 0))

\* a - b for a >= b
BigSub(a, b) ==
    BigNorm(BigCarry([k \in 1..Len(a) |-> a[k] - BigDigit(b, k)], 0))

RECURSIVE BigColumn(_, _, _, _)
\* the sum of a[i] * b[k + 1 - i] over i from i on
BigColumn(a, b, k, i) ==
    IF i > Len(a) \/ i > k THEN 0
    ELSE (IF k + 1 - i <= Len(b) THEN a[i] * b[k + 1 - i] ELSE 0) + BigColumn(a, b, k, i + 1)

BigMul(a, b) ==
    BigNorm(BigCarry([k \in 1..(Len(a) + Len(b)) |-> BigColumn(a, b, k, 1)], 0))

RECURSIVE BigCmpFrom(_, _, _)
BigCmpFrom(a, b, k) ==
    IF k = 0 THEN 0
    ELSE IF a[k] # b[k] THEN (IF a[k] < b[k] THEN -1 ELSE 1)
    ELSE BigCmpFrom(a, b, k - 1)

\* -1, 0 or 1 as a is less than, equal to or greater than b
BigCmp(a, b) ==
    IF Len(a) # Len(b) THEN (IF Len(a) < Len(b) THEN -1 ELSE 1)
    ELSE BigCmpFrom(a, b, Len(a))

\* a * 2^k
BigShl(a, k) ==
    LET q == k \div RadixBits
        r == k % RadixBits
    IN BigNorm(BigCarry([i \in 1..(q + Len(a)) |-> IF i <= q THEN 0 ELSE a[i - q] * 2^r], 0))

\* a divided by 2^k, rounded down
BigShr(a, k) ==
    LET q == k \div RadixBits
        r == k % RadixBits
    IN BigNorm([i \in 1..(IF Len(a) > q THEN Len(a) - q ELSE 0) |->
                    (a[i + q] \div 2^r) + (BigDigit(a, i + q + 1) % 2^r) * 2^(RadixBits - r)])

RECURSIVE BitLength(_)
\* the number of binary digits of k >= 0
BitLength(k) == IF k = 0 THEN 0 ELSE 1 + BitLength(k \div 2)

\* the number of binary digits of a
BigBits(a) == IF a = <<>> THEN 0 ELSE RadixBits * (Len(a) - 1) + BitLength(a[Len(a)])

float_zero == [sign |-> 0, man |-> <<>>, exp |-> 0]

\* the float nearest to (-1)^sign * (m + d) * 2^e, where 0 <= d < 1 and
\* d > 0 exactly if sticky (m has two digits more than a mantissa then)
float_round(sign, m, e, sticky) ==
    LET n == BigBits(m)
        k == n - DBL_MANT_DIG
        q == BigShr(m, k)
        at == (k - 1) \div RadixBits + 1
        half == 2^((k - 1) % RadixBits)
        below == m[at] % half # 0 \/ \E i \in 1..(at - 1) : m[i] # 0
        up == (m[at] \div half) % 2 = 1 /\ (below \/ sticky \/ q[1] % 2 = 1)
        r == IF up THEN BigAdd(q, <<1>>) ELSE q
    IN IF m = <<>> THEN float_zero
       ELSE IF k <= 0 THEN [sign |-> sign, man |-> BigShl(m, -k), exp |-> e + k]
       ELSE IF BigBits(r) > DBL_MANT_DIG
       THEN [sign |-> sign, man |-> BigShr(r, 1), exp |-> e + k + 1]
       ELSE [sign |-> sign, man |-> r, exp |-> e + k]

\* float(k) of an int k
float(k) == IF k < 0 THEN float_round(1, BigOfInt(-k), 0, FALSE)
            ELSE float_round(0, BigOfInt(k), 0, FALSE)

\* -x
float_neg(x) == IF x.man = <<>> THEN x ELSE [x EXCEPT !.sign = 1 - @]

\* abs(x)
fabs(x) == [x EXCEPT !.sign = 0]

GuardRadix == 268435456

\* 8 * m for a mantissa m, as hi * GuardRadix + lo: three guard digits
GuardHi(m) == (m[2] \div 4096) + m[3] * 2 + m[4] * 16384 + m[5] * 134217728

GuardLo(m) == ((m[1] + m[2] * 8192) % 33554432) * 8

\* hi * GuardRadix + lo divided by 2^d, rounded down; st is 1 when binary
\* digits other than 0 were lost
GuardShr(hi, lo, d) ==
    IF d >= 57 THEN [hi |-> 0, lo |-> 0, st |-> 1]
    ELSE IF d >= 28
    THEN [hi |-> 0, lo |-> hi \div 2^(d - 28),
          st |-> IF lo # 0 \/ hi % 2^(d - 28) # 0 THEN 1 ELSE 0]
    ELSE [hi |-> hi \div 2^d, lo |-> (lo \div 2^d) + (hi % 2^d) * 2^(28 - d),
          st |-> IF lo % 2^d # 0 THEN 1 ELSE 0]

\* the mantissa hi * GuardRadix + lo of 53 binary digits
GuardMan(hi, lo) ==
    <<lo % 8192, (lo \div 8192) % 8192, (lo \div 67108864) + (hi % 2048) * 4,
      (hi \div 2048) % 8192, hi \div 16777216>>

\* the float (-1)^sign * (hi * GuardRadix + lo) * 2^e, where
\* hi * GuardRadix + lo has 53 binary digits or less: s more make 53
GuardExact(sign, hi, lo, e) ==
    LET s == IF hi = 0 THEN 53 - BitLength(lo) ELSE 25 - BitLength(hi)
    IN IF hi = 0 /\ lo = 0 THEN float_zero
       ELSE IF s >= 28
       THEN [sign |-> sign, man |-> GuardMan(lo * 2^(s - 28), 0), exp |-> e - s]
       ELSE [sign |-> sign,
             man |-> GuardMan(hi * 2^s + lo \div 2^(28 - s), (lo % 2^(28 - s)) * 2^s),
             exp |-> e - s]

\* the float nearest to (-1)^sign * (hi * GuardRadix + lo + d) * 2^e, where
\* 0 <= d < 1 and d > 0 exactly if st = 1 (hi * GuardRadix + lo has 54
\* binary digits or more then): the k last digits are rounded away
GuardRound(sign, hi, lo, st, e) ==
    LET k == IF hi >= 268435456 THEN 4 ELSE IF hi >= 134217728 THEN 3
             ELSE IF hi >= 67108864 THEN 2 ELSE 1
        q_hi == hi \div 2^k
        q_lo == (lo \div 2^k) + (hi % 2^k) * 2^(28 - k)
        rest == lo % 2^k
        half == 2^(k - 1)
        up == rest > half \/ (rest = half /\ (st = 1 \/ q_lo % 2 = 1))
        r_lo == IF up THEN (q_lo + 1) % GuardRadix ELSE q_lo
        r_hi == IF up /\ q_lo + 1 = GuardRadix THEN q_hi + 1 ELSE q_hi
    IN IF hi < 33554432 THEN GuardExact(sign, hi, lo, e)
       ELSE IF r_hi = 33554432
       THEN [sign |-> sign, man |-> GuardMan(16777216, 0), exp |-> e + k + 1]
       ELSE [sign |-> sign, man |-> GuardMan(r_hi, r_lo), exp |-> e + k]

\* x + y for |x| >= |y| > 0: y is brought to the exponent of x with three
\* guard digits, and what it loses beyond them counts in the rounding only
float_add_guarded(x, y) ==
    LET b == GuardShr(GuardHi(y.man), GuardLo(y.man), x.exp - y.exp)
        lo == IF x.sign = y.sign THEN GuardLo(x.man) + b.lo
              ELSE GuardLo(x.man) - b.lo - b.st
        hi == IF x.sign = y.sign THEN GuardHi(x.man) + b.hi + lo \div GuardRadix
              ELSE GuardHi(x.man) - b.hi + lo \div GuardRadix
    IN GuardRound(x.sign, hi, lo % GuardRadix, b.st, x.exp - 3)

\* x + y
float_add(x, y) ==
    IF x.man = <<>> THEN y
    ELSE IF y.man = <<>> THEN x
    ELSE IF x.exp < y.exp \/ (x.exp = y.exp /\ BigCmp(x.man, y.man) < 0)
    THEN float_add_guarded(y, x)
    ELSE float_add_guarded(x, y)

\* x - y
float_sub(x, y) == float_add(x, float_neg(y))

\* x * y
float_mul(x, y) ==
    float_round((x.sign + y.sign) % 2, BigMul(x.man, y.man), x.exp + y.exp, FALSE)

\* x < y
float_lt(x, y) ==
    LET mag == IF x.exp # y.exp THEN (IF x.exp < y.exp THEN -1 ELSE 1)
               ELSE BigCmp(x.man, y.man)
    IN IF x.man = <<>> THEN y.man # <<>> /\ y.sign = 0
       ELSE IF y.man = <<>> THEN x.sign = 1
       ELSE IF x.sign # y.sign THEN x.sign = 1
       ELSE IF x.sign = 0 THEN mag < 0
       ELSE mag > 0

\* x <= y
float_le(x, y) == x = y \/ float_lt(x, y)

RECURSIVE BigSqrtBits(_, _, _, _)
\* r with the binary digits hi down to lo added in that order, each one
\* when the square stays at most a: the upper half of the digits first,
\* and no more when the square is a already
BigSqrtBits(a, r, hi, lo) ==
    IF hi = lo
    THEN LET c == BigAdd(r, BigShl(<<1>>, hi))
         IN IF BigCmp(BigMul(c, c), a) <= 0 THEN c ELSE r
    ELSE LET upper == BigSqrtBits(a, r, hi, (hi + lo) \div 2 + 1)
         IN IF BigMul(upper, upper) = a THEN upper
            ELSE BigSqrtBits(a, upper, (hi + lo) \div 2, lo)

\* the square root of a, rounded down
BigSqrt(a) == BigSqrtBits(a, <<>>, BigBits(a) \div 2, 0)

\* math.sqrt(x) for x >= 0: the root of the mantissa, extended to an even
\* exponent and by 56 binary digits, has 55 digits
sqrt(x) ==
    LET odd == x.exp % 2
        a == BigShl(x.man, 56 + odd)
        r == BigSqrt(a)
    IN IF x.man = <<>> THEN x
       ELSE float_round(0, r, (x.exp - odd - 56) \div 2, BigMul(r, r) # a)

\* the float 1e-09, 0x1.12e0be826d695p-30
rel_tol == [sign |-> 0, man |-> <<5781, 310, 762, 604, 1>>, exp |-> -82]

\* math.isclose(a, b): rel_tol = 1e-09, abs_tol = 0.0
isclose(a, b) ==
    LET diff == fabs(float_sub(b, a))
    IN \/ a = b
       \/ float_le(diff, fabs(float_mul(rel_tol, b)))
       \/ float_le(diff, fabs(float_mul(rel_tol, a)))
       \/ float_le(diff, float_zero)

(***************************************************************************)
(* tsp.py: Component, LocalMove, Point, Problem.                           *)
(***************************************************************************)
tsp_Component(u, v) == [u |-> u, v |-> v]

tsp_LocalMove(i, j) == [i |-> i, j |-> j]

Point(x, y) == [x |-> x, y |-> y]

\* mutant of euclidean_dist: the distance along the axes
euclidean_dist_along_axes(a, b) ==
    LET dx == float_sub(a.x, b.x)
        dy == float_sub(a.y, b.y)
    IN float_add(fabs(dx), fabs(dy))

euclidean_dist(a, b) ==
    LET dx == float_sub(a.x, b.x)
        dy == float_sub(a.y, b.y)
    IN sqrt(float_add(float_mul(dx, dx), float_mul(dy, dy)))

distance_matrix(coords) ==
    [a \in 0..(Len(coords) - 1) |->
        [b \in 0..(Len(coords) - 1) |-> euclidean_dist(coords[a + 1], coords[b + 1])]]

tsp_Problem(coords) ==
    [nnodes |-> Len(coords), coords |-> coords, dist |-> distance_matrix(coords)]

\* The point sets of the closed-tour instances, point k of each:
\* the corners of the unit square (0,0),(0,1),(1,1),(1,0) walked round,
\* points on a line, the corners of 3-by-4 rectangles, and a scattered set.
Layouts == {"square", "line", "rect", "scatter"}

LayoutPoint(layout, k) ==
    CASE layout = "square" -> <<(k \div 2) % 2, ((k + 1) \div 2) % 2>>
      [] layout = "line" -> <<k, 0>>
      [] layout = "rect" -> <<3 * (k % 2), 4 * (k \div 2)>>
      [] layout = "scatter" -> <<k * k, 2 * k>>

\* The text of an instance: n, then n lines of two coordinates, each a
\* whole number in decimal digits.
TspInputText(n, layout) ==
    [n |-> n, lines |-> [k \in 1..n |-> LayoutPoint(layout, k - 1)]]

\* x, y = map(float, f.readline().split())
tsp_from_textio(f) ==
    tsp_Problem([k \in 1..f.n |-> Point(float(f.lines[k][1]), float(f.lines[k][2]))])

\* dist starts as the int 0, which counts as float(0) in every sum
tsp_empty_solution(p) ==
    [start |-> 0, path |-> <<0>>, used |-> {0},
     unused |-> set_of(range(1, p.nnodes)), dist |-> float(0)]

tsp_empty_solution_with_start(p, start) ==
    [start |-> start, path |-> <<start>>, used |-> {start},
     unused |-> set_difference(set_of(range(0, p.nnodes)), set_of(<<start>>)),
     dist |-> float(0)]

(***************************************************************************)
(* tsp.py: Solution.                                                       *)
(***************************************************************************)
\* mutant of tsp_copy: the new Solution is given self.path itself
tsp_copy_same_path(h, t) ==
    LET h_2 == Append(h, h[t.used])
        h_3 == Append(h_2, set_copy(h[t.unused]))
    IN [heap |-> h_3,
        obj |-> [start |-> t.start, path |-> t.path, used |-> Len(h_2),
                 unused |-> Len(h_3), dist |-> t.dist]]

\* copy() of the Solution t on the heap h, where t holds the addresses of
\* its list and sets: every copy(x) puts a new list or set with the
\* elements of x at a new address; start and dist are numbers and are
\* passed as they are.  The result is the heap after the call and the new
\* Solution.
tsp_copy(h, t) ==
    LET h_1 == Append(h, h[t.path])
        h_2 == Append(h_1, h[t.used])
        h_3 == Append(h_2, set_copy(h[t.unused]))
    IN [heap |-> h_3,
        obj |-> [start |-> t.start, path |-> Len(h_1), used |-> Len(h_2),
                 unused |-> Len(h_3), dist |-> t.dist]]

\* str(k) of an int k >= 0
str(k) ==
    LET digit(d) == CASE d = 0 -> "0" [] d = 1 -> "1" [] d = 2 -> "2" [] d = 3 -> "3"
                      [] d = 4 -> "4" [] d = 5 -> "5" [] d = 6 -> "6" [] d = 7 -> "7"
                      [] d = 8 -> "8" [] d = 9 -> "9"
    IN IF k < 10 THEN <<digit(k)>> ELSE <<digit(k \div 10), digit(k % 10)>>

\* output(): the lines of the text, which "\n".join puts a newline between;
\* a line is the sequence of its characters
tsp_output(t) == [k \in 1..Len(t.path) |-> str(t.path[k])]

tsp_is_feasible(p, t) == Len(t.path) = p.nnodes + 1

\* mutant of tsp_objective: defined as soon as every point is on the path
tsp_objective_before_return(p, t) == IF Len(t.path) >= p.nnodes THEN Some(t.dist) ELSE None

tsp_objective(p, t) == IF Len(t.path) = p.nnodes + 1 THEN Some(t.dist) ELSE None

tsp_lower_bound(p, t) == Some(t.dist)

\* mutant of tsp_add_moves: offers every other node, visited or not
tsp_add_moves_any_node(p, t) ==
    IF Len(t.path) < p.nnodes
    THEN {tsp_Component(PyGet(t.path, -1), v) : v \in (0..(p.nnodes - 1)) \ {PyGet(t.path, -1)}}
    ELSE IF Len(t.path) = p.nnodes
    THEN {tsp_Component(PyGet(t.path, -1), t.start)}
    ELSE {}

\* the components add_moves() yields
tsp_add_moves(p, t) ==
    IF Len(t.path) < p.nnodes
    THEN {tsp_Component(PyGet(t.path, -1), v) : v \in Keys(t.unused)}
    ELSE IF Len(t.path) = p.nnodes
    THEN {tsp_Component(PyGet(t.path, -1), t.start)}
    ELSE {}

\* the moves local_moves() yields
tsp_local_moves(t) ==
    UNION {{tsp_LocalMove(i, j) : j \in (i + 2)..(Len(t.path) - 1)} :
            i \in 1..(Len(t.path) - 1)}

RECURSIVE tsp_heuristic_loop(_, _, _, _)
\* the loop "for v in self.unused" of heuristic_add_move() over the nodes
\* todo: best and bestd are None or Some(value)
tsp_heuristic_loop(p, u, todo, acc) ==
    IF todo = <<>> THEN acc
    ELSE LET v == Head(todo)
             d == p.dist[u][v]
         IN tsp_heuristic_loop(p, u, Tail(todo),
                IF acc.bestd = None \/ float_lt(d, acc.bestd[1])
                THEN [best |-> Some(tsp_Component(u, v)), bestd |-> Some(d)]
                ELSE acc)

tsp_heuristic_add_move(p, t) ==
    IF Len(t.path) < p.nnodes
    THEN tsp_heuristic_loop(p, PyGet(t.path, -1), iter(t.unused),
                            [best |-> None, bestd |-> None]).best
    ELSE IF Len(t.path) = p.nnodes
    THEN Some(tsp_Component(PyGet(t.path, -1), t.start))
    ELSE None

\* mutant of tsp_random_local_move: j is drawn from i + 1 on
tsp_random_local_move_adjacent(t) ==
    IF Len(t.path) >= 4
    THEN UNION {{Some(tsp_LocalMove(i, j)) : j \in (i + 1)..(Len(t.path) - 1)} :
                    i \in 1..(Len(t.path) - 3)}
    ELSE {None}

\* what random_local_move() can return
tsp_random_local_move(t) ==
    IF Len(t.path) >= 4
    THEN UNION {{Some(tsp_LocalMove(i, j)) : j \in (i + 2)..(Len(t.path) - 1)} :
                    i \in 1..(Len(t.path) - 3)}
    ELSE {None}

\* mutant of tsp_add: v is never taken out of unused
tsp_add_keeps_unused(p, t, component) ==
    Ret([t EXCEPT !.path = Append(@, component.v),
                  !.used = @ \cup {component.v},
                  !.dist = float_add(@, p.dist[component.u][component.v])], "none")

tsp_add(p, t, component) ==
    LET u == component.u
        v == component.v
        appended == [t EXCEPT !.path = Append(@, v)]
    IN IF v # t.start /\ ~set_contains(t.unused, v)
       THEN Ret(appended, "KeyError")
       ELSE Ret([appended EXCEPT !.unused = IF v # t.start THEN set_remove(@, v) ELSE @,
                                 !.used = @ \cup {v},
                                 !.dist = float_add(@, p.dist[u][v])], "none")

RECURSIVE PathLengthTo(_, _, _)
PathLengthTo(p, path, k) ==
    IF k <= 1 THEN float(0)
    ELSE float_add(PathLengthTo(p, path, k - 1), p.dist[path[k - 1]][path[k]])

\* sum(...) of problem.dist over pairwise(path): the floats added one after
\* the other to 0, from the first pair on
PathLength(p, path) == PathLengthTo(p, path, Len(path))

\* path[i:j] = list(reversed(path[i:j]))
ReverseSlice(path, i, j) ==
    LET lo == PySliceBound(Len(path), i)
        hi == PySliceBound(Len(path), j)
    IN IF lo >= hi THEN path
       ELSE [k \in 1..Len(path) |->
                IF lo < k /\ k <= hi THEN path[lo + hi + 1 - k] ELSE path[k]]

tsp_step(p, t, lmove) ==
    LET i == lmove.i
        j == lmove.j
        len == Len(t.path)
        edge(path, k) == p.dist[PyGet(path, k - 1)][PyGet(path, k)]
        dist_1 == float_sub(t.dist, edge(t.path, i))
        dist_2 == float_sub(dist_1, edge(t.path, j))
        reversed == ReverseSlice(t.path, i, j)
        dist_4 == float_add(float_add(dist_2, edge(reversed, i)), edge(reversed, j))
        done == [t EXCEPT !.path = reversed, !.dist = dist_4]
    IN IF ~PyIndexOk(len, i - 1) \/ ~PyIndexOk(len, i)
       THEN Ret(t, "IndexError")
       ELSE IF ~PyIndexOk(len, j - 1) \/ ~PyIndexOk(len, j)
       THEN Ret([t EXCEPT !.dist = dist_1], "IndexError")
       ELSE IF /\ isclose(PathLength(p, reversed), dist_4)
               /\ PyGet(reversed, 0) = t.start
               /\ PyGet(reversed, -1) = t.start
       THEN Ret(done, "none")
       ELSE Ret(done, "AssertionError")

\* mutant of tsp_objective_incr_local: the new first edge ends at path[j]
tsp_objective_incr_local_wrong_edge(p, t, lmove) ==
    LET i == lmove.i
        j == lmove.j
        ndist_1 == float_sub(t.dist, p.dist[PyGet(t.path, i - 1)][PyGet(t.path, i)])
        ndist_2 == float_sub(ndist_1, p.dist[PyGet(t.path, j - 1)][PyGet(t.path, j)])
        ndist_3 == float_add(ndist_2, p.dist[PyGet(t.path, i - 1)][PyGet(t.path, j)])
        ndist == float_add(ndist_3, p.dist[PyGet(t.path, i)][PyGet(t.path, j)])
    IN float_sub(ndist, t.dist)

tsp_objective_incr_local(p, t, lmove) ==
    LET i == lmove.i
        j == lmove.j
        ndist_1 == float_sub(t.dist, p.dist[PyGet(t.path, i - 1)][PyGet(t.path, i)])
        ndist_2 == float_sub(ndist_1, p.dist[PyGet(t.path, j - 1)][PyGet(t.path, j)])
        ndist_3 == float_add(ndist_2, p.dist[PyGet(t.path, i - 1)][PyGet(t.path, j - 1)])
        ndist == float_add(ndist_3, p.dist[PyGet(t.path, i)][PyGet(t.path, j)])
    IN float_sub(ndist, t.dist)

tsp_lower_bound_incr_add(p, t, component) ==
    IF Len(t.path) + 1 <= p.nnodes THEN p.dist[component.u][component.v] ELSE float(0)

RECURSIVE tsp_perturb(_, _, _)
\* the outcomes of perturb(ks): a move that is None is skipped
tsp_perturb(p, t, ks) ==
    IF ks = 0 THEN {Ret(t, "none")}
    ELSE UNION {IF move = None THEN tsp_perturb(p, t, ks - 1)
                ELSE LET r == tsp_step(p, t, move[1])
                     IN IF r.err # "none" THEN {r} ELSE tsp_perturb(p, r.sol, ks - 1) :
                    move \in tsp_random_local_move(t)}

RECURSIVE tsp_heuristic_construction(_, _, _)
\* the construction driver on a closed tour: c = heuristic_add_move(); stop
\* if c is None; add(c)
tsp_heuristic_construction(p, t, adds) ==
    LET c == tsp_heuristic_add_move(p, t)
    IN IF c = None THEN [sol |-> t, err |-> "none", adds |-> adds]
       ELSE LET r == tsp_add(p, t, c[1])
            IN IF r.err # "none" THEN [sol |-> t, err |-> r.err, adds |-> adds]
               ELSE tsp_heuristic_construction(p, r.sol, adds + 1)

(***************************************************************************)
(* The state machine: one problem instance, one solution object and the    *)
(* calls a driver makes on it.  A call that raises leaves the object as    *)
(* the exception found it and ends the run.                                *)
(*                                                                         *)
(* The lists and sets of the program are on the heap, each at its address, *)
(* its place in heap.  A Solution holds the addresses of its lists and     *)
(* sets and its numbers themselves: add, step and perturb change the lists *)
(* and sets in place (append, remove, item and slice assignment) and       *)
(* assign obj_value and dist anew.  this is the solution object and twin   *)
(* its copy, None before copy() is called.                                 *)
(***************************************************************************)
Problems == {from_textio(InputText(n, seed)) : n \in 1..MaxN, seed \in 0..MaxSeed}

TspProblems == {tsp_from_textio(TspInputText(n, layout)) : n \in 1..MaxNodes, layout \in Layouts}

\* the attributes of a Solution that are lists and sets, in the order of
\* the arguments of __init__
Attributes(o) ==
    IF "containers" \in DOMAIN o
    THEN <<"containers", "directions", "picked", "not_picked">>
    ELSE <<"path", "used", "unused">>

\* the Solution o as its lists, sets and numbers
Deref(h, o) ==
    IF "containers" \in DOMAIN o
    THEN [containers |-> h[o.containers], directions |-> h[o.directions],
          picked |-> h[o.picked], not_picked |-> h[o.not_picked], obj_value |-> o.obj_value]
    ELSE [start |-> o.start, path |-> h[o.path], used |-> h[o.used],
          unused |-> h[o.unused], dist |-> o.dist]

\* Solution(problem, ...) called on new lists and sets: the heap they make
\* up and the object
Solution(value) ==
    LET at == Attributes(value)
    IN [heap |-> [a \in 1..Len(at) |-> value[at[a]]],
        obj |-> [f \in DOMAIN value |->
                    IF f \in Elems(at) THEN CHOOSE a \in 1..Len(at) : at[a] = f
                    ELSE value[f]]]

\* the heap after a method has run on the Solution o and left value: the
\* lists and sets of o are changed where they are
Store(h, o, value) ==
    IF "containers" \in DOMAIN o
    THEN [h EXCEPT ![o.containers] = value.containers, ![o.directions] = value.directions,
                   ![o.picked] = value.picked, ![o.not_picked] = value.not_picked]
    ELSE [h EXCEPT ![o.path] = value.path, ![o.used] = value.used,
                   ![o.unused] = value.unused]

\* the Solution o after that method: its numbers are assigned anew
Assign(o, value) ==
    IF "containers" \in DOMAIN o THEN [o EXCEPT !.obj_value = value.obj_value]
    ELSE [o EXCEPT !.dist = value.dist]

\* the solution object and its copy, as their lists, sets and numbers
sol == Deref(heap, this)

copied == Deref(heap, twin[1])

\* the empty solutions of the given instances; steps is what the calls to
\* come may cost together, None when nothing bounds them
Start(problems, tsp_problems, budget, tsp_budget) ==
    /\ variant \in {"base", "tsp"}
    /\ problem \in IF variant = "base" THEN problems ELSE tsp_problems
    /\ \E value \in IF variant = "base"
                    THEN {empty_solution(problem)}
                    ELSE {tsp_empty_solution(problem)}
                         \cup {tsp_empty_solution_with_start(problem, start) :
                                 start \in 0..(problem.nnodes - 1)} :
            /\ heap = Solution(value).heap
            /\ this = Solution(value).obj
    /\ twin = None
    /\ err = "none"
    /\ last = "init"
    /\ wor = None
    /\ steps = IF variant = "base" THEN budget ELSE tsp_budget

\* the floats of dist drift with every step on a closed tour, so the tours
\* have no end of states: their steps are bounded
Init == Start(Problems, TspProblems, None, Some(MaxTspSteps))

\* the calls to come may cost n
Affords(n) == IF steps = None THEN TRUE ELSE steps[1] >= n

\* steps after a call that costs n
Counted(n) == IF steps = None THEN None ELSE Some(steps[1] - n)

\* what an add costs: one when there is a copy
AddCost == IF twin = None THEN 0 ELSE 1

\* the call on the solution object returned or raised: the object and the
\* exception it leaves
Returns(r, op, n) ==
    /\ heap' = Store(heap, this, r.sol)
    /\ this' = Assign(this, r.sol)
    /\ err' = r.err
    /\ last' = op
    /\ steps' = Counted(n)
    /\ UNCHANGED <<variant, problem, twin, wor>>

\* s.add(c), c taken from s.add_moves()
Add ==
    /\ variant = "base" /\ err = "none" /\ Affords(AddCost)
    /\ \E component \in add_moves(sol) :
            Returns(add(problem, sol, component), "add", AddCost)

\* s.step(m) on a complete solution, m taken from s.local_moves()
Step ==
    /\ variant = "base" /\ err = "none" /\ Affords(1)
    /\ objective(problem, sol) # None
    /\ \E lmove \in local_moves(problem) : Returns(step(problem, sol, lmove), "step", 1)

\* s.perturb(ks)
Perturb ==
    /\ variant = "base" /\ err = "none"
    /\ \E ks \in 0..MaxKs :
        /\ Affords(ks)
        /\ \E r \in perturb(problem, sol, ks) : Returns(r, "perturb", ks)

TspAdd ==
    /\ variant = "tsp" /\ err = "none" /\ Affords(AddCost)
    /\ \E component \in tsp_add_moves(problem, sol) :
            Returns(tsp_add(problem, sol, component), "add", AddCost)

TspStep ==
    /\ variant = "tsp" /\ err = "none" /\ Affords(1)
    /\ tsp_objective(problem, sol) # None
    /\ \E lmove \in tsp_local_moves(sol) :
            Returns(tsp_step(problem, sol, lmove), "step", 1)

TspPerturb ==
    /\ variant = "tsp" /\ err = "none"
    /\ \E ks \in 0..MaxKs :
        /\ Affords(ks)
        /\ \E r \in tsp_perturb(problem, sol, ks) : Returns(r, "perturb", ks)

\* s.lower_bound_incr_add(c), c taken from s.add_moves(): the call takes
\* the container out of not_picked and puts it back, which can leave it in
\* another slot of the table
LowerBoundIncrAdd ==
    /\ variant = "base" /\ err = "none"
    /\ \E component \in add_moves(sol) :
            LET r == lower_bound_incr_add(problem, sol, component)
            IN Returns(Ret(r.sol, r.err), "lower_bound_incr_add", 0)

Next == Add \/ Step \/ Perturb \/ LowerBoundIncrAdd \/ TspAdd \/ TspStep \/ TspPerturb

Spec == Init /\ [][Next]_vars

\* t = s.copy()
Copy ==
    /\ err = "none" /\ twin = None
    /\ LET r == IF variant = "base" THEN copy(heap, this) ELSE tsp_copy(heap, this)
       IN /\ heap' = r.heap
          /\ twin' = Some(r.obj)
    /\ last' = "copy"
    /\ UNCHANGED <<variant, problem, this, err, wor, steps>>

\* a call on the copy returned or raised
ReturnsOnCopy(r, op, n) ==
    /\ heap' = Store(heap, twin[1], r.sol)
    /\ twin' = Some(Assign(twin[1], r.sol))
    /\ err' = r.err
    /\ last' = op
    /\ steps' = Counted(n)
    /\ UNCHANGED <<variant, problem, this, wor>>

\* t.add(c), c taken from t.add_moves()
CopyAdd ==
    /\ err = "none" /\ twin # None /\ Affords(1)
    /\ \E r \in IF variant = "base"
                THEN {add(problem, copied, c) : c \in add_moves(copied)}
                ELSE {tsp_add(problem, copied, c) : c \in tsp_add_moves(problem, copied)} :
            ReturnsOnCopy(r, "copy.add", 1)

\* t.step(m) on a complete copy, m taken from t.local_moves()
CopyStep ==
    /\ err = "none" /\ twin # None /\ Affords(1)
    /\ \E r \in IF variant = "base"
                THEN (IF objective(problem, copied) = None THEN {}
                      ELSE {step(problem, copied, m) : m \in local_moves(problem)})
                ELSE (IF tsp_objective(problem, copied) = None THEN {}
                      ELSE {tsp_step(problem, copied, m) : m \in tsp_local_moves(copied)}) :
            ReturnsOnCopy(r, "copy.step", 1)

\* t.perturb(ks)
CopyPerturb ==
    /\ err = "none" /\ twin # None
    /\ \E ks \in 0..MaxKs :
        /\ Affords(ks)
        /\ \E r \in IF variant = "base" THEN perturb(problem, copied, ks)
                     ELSE tsp_perturb(problem, copied, ks) :
                ReturnsOnCopy(r, "copy.perturb", ks)

\* a driver that copies its solution once and goes on with both objects,
\* on the instances of at most MaxCopyN containers, seeds 0..MaxCopySeed, or
\* from empty_solution() on those of at most MaxCopyNodes points
CopyProblems ==
    {from_textio(InputText(n, seed)) : n \in 1..MaxCopyN, seed \in 0..MaxCopySeed}

TspCopyProblems == {p \in TspProblems : p.nnodes <= MaxCopyNodes}

InitCopy ==
    /\ Start(CopyProblems, TspCopyProblems, Some(MaxCopySteps), Some(MaxCopySteps))
    /\ variant = "tsp" => sol = tsp_empty_solution(problem)

NextCopy ==
    \/ Add \/ Step \/ Perturb \/ TspAdd \/ TspStep \/ TspPerturb
    \/ Copy \/ CopyAdd \/ CopyStep \/ CopyPerturb

SpecCopy == InitCopy /\ [][NextCopy]_vars

\* The draws of one call of next() on the generator g: the numbers of the
\* shuffles it makes, 0 standing for a shuffle it does not make.
DrawsOfNext(p, g) ==
    LET new_1 == ~g.started
        new_2 == new_1 \/ (g.pos_dir = Len(g.range_dir) /\ g.pos_2 = Len(g.range_2))
        new_dir == new_2 \/ g.pos_dir = Len(g.range_dir)
    IN [k_1 |-> IF new_1 THEN 0..(Fact(p.n) - 1) ELSE {0},
        k_2 |-> IF new_2 THEN 0..(Fact(p.n) - 1) ELSE {0},
        k_dir |-> IF new_dir THEN 0..(Fact(4) - 1) ELSE {0}]

\* g = s.random_local_moves_wor(): wor holds the generator and how often
\* each move has come out of it
WorCall ==
    /\ variant = "base" /\ err = "none" /\ wor = None
    /\ wor' = Some([gen |-> wor_new,
                    yielded |-> [m \in {LocalMove(i, j, i_dir, j_dir) :
                                            i \in 0..(problem.n - 1), j \in 0..(problem.n - 1),
                                            i_dir \in 0..1, j_dir \in 0..1} |-> 0]])
    /\ UNCHANGED <<variant, problem, heap, this, twin, err, last, steps>>

\* next(g), whatever the shuffles draw
WorNext ==
    /\ wor # None /\ ~wor[1].gen.done
    /\ LET draws == DrawsOfNext(problem, wor[1].gen)
       IN \E k_1 \in draws.k_1, k_2 \in draws.k_2, k_dir \in draws.k_dir :
            LET r == random_local_moves_wor(problem, wor[1].gen, k_1, k_2, k_dir)
            IN wor' = Some([gen |-> r.gen,
                            yielded |-> IF r.value = None THEN wor[1].yielded
                                        ELSE [wor[1].yielded EXCEPT ![r.value[1]] = @ + 1]])
    /\ UNCHANGED <<variant, problem, heap, this, twin, err, last, steps>>

\* a driver that runs through random_local_moves_wor() on the empty solution;
\* the generator reads nothing but problem.n, so one instance stands for
\* every instance of its n
InitWor ==
    /\ Init
    /\ variant = "base"
    /\ problem = from_textio(InputText(problem.n, 0))

NextWor == WorCall \/ WorNext

SpecWor == InitWor /\ [][NextWor]_vars

\* the same without perturb: construction by add, then local moves by step
NextAddStep == Add \/ Step \/ TspAdd \/ TspStep

SpecAddStep == Init /\ [][NextAddStep]_vars

\* a driver that follows the first element of the sequence: add and step on
\* the orientation instances of seed MaxSeed and at most MaxFirstN
\* containers (neither call reads a cost to change the sequence), every
\* call on the closed tours
FirstProblems == {from_textio(InputText(n, MaxSeed)) : n \in 1..MaxFirstN}

InitFirst == Start(FirstProblems, TspProblems, None, Some(MaxTspSteps))

NextFirst == Add \/ Step \/ TspAdd \/ TspStep \/ TspPerturb

SpecFirst == InitFirst /\ [][NextFirst]_vars

(***************************************************************************)
(* Ground truth the claims compare the code with.                          *)
(***************************************************************************)
\* the fields of a solution object, its sets taken as their elements
Content(o) ==
    [f \in DOMAIN o |-> IF f \in {"not_picked", "unused"} THEN Keys(o[f]) ELSE o[f]]

\* the solution is Complete
Complete == IF variant = "base" THEN set_len(sol.not_picked) = 0
            ELSE Len(sol.path) = problem.nnodes + 1

\* entry cost of the first element plus the transition cost of every
\* consecutive pair of containers, in their directions
RouteCost(p, s) ==
    IF Len(s.containers) = 0 THEN 0
    ELSE p.depot_to_container[s.directions[1]][s.containers[1]]
         + SumOver(1..(Len(s.containers) - 1),
                [k \in 1..(Len(s.containers) - 1) |->
                    p.container_to_container[2 * s.directions[k] + s.directions[k + 1]]
                                            [s.containers[k]][s.containers[k + 1]]])

RECURSIVE Completions(_, _)
\* the Complete solutions obtainable from s by further adds
Completions(p, s) ==
    IF set_len(s.not_picked) = 0 THEN {s}
    ELSE UNION {Completions(p, add(p, s, c).sol) : c \in add_moves(s)}

\* the indices a caller can pass for a list of length len: those of the
\* list, -1 (Python's last element) and len (one past the end)
Indices(len) == -1..len

(***************************************************************************)
(* Claims                                                                  *)
(***************************************************************************)
\* C1 (as claimed): orientation variant, in every Complete solution built by
\* adds, for every move m of local_moves(), objective_incr_local(m) equals
\* objective() after step(m) minus objective() before.
C1_DeltaMatchesStep ==
    (variant = "base" /\ last = "add" /\ Complete) =>
        \A m \in local_moves(problem) :
            objective_incr_local(problem, sol, m)
                = objective(problem, step(problem, sol, m).sol)[1]
                  - objective(problem, sol)[1]

\* C2: closed-tour variant, in every Complete tour, for every move m of
\* local_moves(), objective_incr_local(m) equals objective() after step(m)
\* minus objective() before.
C2_TspDeltaMatchesStep ==
    (variant = "tsp" /\ err = "none" /\ Complete) =>
        \A m \in tsp_local_moves(sol) :
            tsp_objective_incr_local(problem, sol, m)
                = float_sub(tsp_objective(problem, tsp_step(problem, sol, m).sol)[1],
                            tsp_objective(problem, sol)[1])

\* C2 witness: a Complete tour reached by a step that still has an improving move.
C2_Witness ==
    /\ variant = "tsp" /\ Complete /\ last = "step"
    /\ \E m \in tsp_local_moves(sol) :
            float_lt(tsp_objective_incr_local(problem, sol, m), float(0))

\* C3 (as claimed): orientation variant, obj_value always equals the cost
\* recomputed from the containers and directions.
C3_ObjValueIsRouteCost ==
    variant = "base" => sol.obj_value = RouteCost(problem, sol)

\* C4 (as claimed): closed-tour variant, under add and step alone: no call
\* raises, dist is the sum of problem.dist over the consecutive pairs of
\* path, path[0] is start and a Complete path ends at start.
C4_TspDistAndEnds ==
    variant = "tsp" =>
        /\ err = "none"
        /\ sol.dist = PathLength(problem, sol.path)
        /\ PyGet(sol.path, 0) = sol.start
        /\ Complete => PyGet(sol.path, -1) = sol.start

\* C5 (as claimed): orientation variant, in every Empty or Partial solution
\* built by adds, lower_bound() is at most objective() of every completion.
C5_LowerBoundAdmissible ==
    (variant = "base" /\ last \in {"init", "add"} /\ ~Complete) =>
        \A t \in Completions(problem, sol) :
            lower_bound(problem, sol)[1] <= objective(problem, t)[1]

\* C6: in both variants the visited and unvisited sets are disjoint, cover
\* all units, and the visited set is the set of units in the sequence.
C6_VisitedPartition ==
    IF variant = "base"
    THEN /\ sol.picked \cap Keys(sol.not_picked) = {}
         /\ sol.picked \cup Keys(sol.not_picked) = 0..(problem.n - 1)
         /\ sol.picked = Elems(sol.containers)
    ELSE /\ sol.used \cap Keys(sol.unused) = {}
         /\ sol.used \cup Keys(sol.unused) = 0..(problem.nnodes - 1)
         /\ sol.used = Elems(sol.path)

\* C6 witness: a Partial orientation solution after an add, both sets non-empty.
C6_Witness ==
    /\ variant = "base" /\ last = "add"
    /\ sol.picked # {} /\ set_len(sol.not_picked) > 0

\* C7: no unit occurs twice in the sequence, except that a Complete closed
\* tour holds start exactly at its first and its last position.
C7_NoDuplicates ==
    IF variant = "base"
    THEN Cardinality(Elems(sol.containers)) = Len(sol.containers)
    ELSE IF Complete
    THEN /\ sol.path[1] = sol.start
         /\ sol.path[Len(sol.path)] = sol.start
         /\ Cardinality(Elems(SubSeq(sol.path, 1, Len(sol.path) - 1))) = Len(sol.path) - 1
    ELSE Cardinality(Elems(sol.path)) = Len(sol.path)

\* C7 witness: a step has swapped two containers of a Complete solution.
C7_Witness ==
    /\ variant = "base" /\ last = "step" /\ Len(sol.containers) = 2
    /\ sol.containers[1] > sol.containers[2]

\* the first element of the sequence, None when it is empty
First == IF variant = "base"
         THEN (IF Len(sol.containers) = 0 THEN None ELSE Some(sol.containers[1]))
         ELSE Some(sol.path[1])

\* C8 (as claimed): in both variants, once the sequence is non-empty no call
\* changes its first element.
C8_FirstNeverChanges == [][First # None => First' = First]_vars

\* what the moves of local_moves() do to the unit at position 0 of a
\* Complete sequence: a step with i > 0 leaves it, a step with i = 0 and
\* j > 0 puts the unit of position j there, which is another one
StepMovesFirst ==
    \A m \in local_moves(problem) :
        LET after == step(problem, sol, m).sol.containers
        IN /\ m.i > 0 => after[1] = sol.containers[1]
           /\ (m.i = 0 /\ m.j > 0) =>
                /\ after[1] = sol.containers[m.j + 1]
                /\ after[1] # sol.containers[1]

\* C8 (amended): the first element of a closed-tour path never changes; in
\* the orientation variant add never changes the unit at position 0; a
\* step leaves it or swaps it with a unit further on; and of the moves of
\* local_moves() on a sequence that add has made Complete, those with i > 0
\* leave it and those with i = 0 and j > 0 replace it by the unit of
\* position j.
C8_FirstFixedUnlessSwapped ==
    [][/\ variant = "tsp" => First' = First
       /\ (variant = "base" /\ First # None /\ last' = "add") => First' = First
       /\ (variant = "base" /\ last' = "step") =>
            \/ sol'.containers[1] = sol.containers[1]
            \/ \E j \in 2..Len(sol.containers) :
                    /\ sol'.containers[1] = sol.containers[j]
                    /\ sol'.containers[j] = sol.containers[1]
       /\ (variant = "base" /\ last' = "add" /\ Complete') => StepMovesFirst']_vars

\* C8 witness: a step was made on a sequence of three containers, of which
\* the moves with 0 < i < j swap two containers and leave the one at
\* position 0, and the moves with i = 0 < j put another one there.
C8_Witness ==
    /\ variant = "base" /\ last = "step" /\ err = "none" /\ Len(sol.containers) = 3
    /\ \E m \in local_moves(problem) :
            LET after == step(problem, sol, m).sol.containers
            IN 0 < m.i /\ m.i < m.j /\ after # sol.containers /\ after[1] = sol.containers[1]
    /\ \E m \in local_moves(problem) :
            m.i = 0 /\ m.j > 0 /\ step(problem, sol, m).sol.containers[1] # sol.containers[1]

\* C9 (as claimed): add of a unit that is already visited raises and leaves
\* the solution as it was (the closing return to start that add_moves()
\* offers is no such call).
C9_AddVisitedFailsClean ==
    IF variant = "base"
    THEN \A node \in sol.picked, direction \in 0..1 :
            LET r == add(problem, sol, Component(node, direction))
            IN r.err # "none" /\ r.sol = sol
    ELSE \A v \in sol.used :
            LET c == tsp_Component(PyGet(sol.path, -1), v)
                r == tsp_add(problem, sol, c)
            IN c \notin tsp_add_moves(problem, sol) => (r.err # "none" /\ r.sol = sol)

\* C10 (as claimed): step raises when i > j, when an index is outside the
\* sequence, and when the solution is not Complete.
C10_BadStepFails ==
    LET len == IF variant = "base" THEN Len(sol.containers) ELSE Len(sol.path)
        bad(i, j) == i > j \/ i \notin 0..(len - 1) \/ j \notin 0..(len - 1) \/ ~Complete
    IN err = "none" =>
        \A i \in Indices(len), j \in Indices(len) :
            bad(i, j) =>
                IF variant = "base"
                THEN \A i_dir \in 0..1, j_dir \in 0..1 :
                        step(problem, sol, LocalMove(i, j, i_dir, j_dir)).err # "none"
                ELSE tsp_step(problem, sol, tsp_LocalMove(i, j)).err # "none"

\* how often x occurs in the sequence seq
Count(seq, x) == Cardinality({k \in 1..Len(seq) : seq[k] = x})

\* C11: orientation variant, whatever the shuffles draw,
\* random_local_moves_wor() yields every move of local_moves() exactly as
\* often as local_moves() does, namely once, and nothing else; the moves of
\* local_moves() are the (i, j, i_dir, j_dir) with 0 <= i <= j < n. While
\* the generator runs no move has come out twice and none that is not a
\* move of local_moves(); when it is exhausted every move has come out.
C11_WorIsPermutation ==
    (variant = "base" /\ wor # None) =>
        LET moves == local_moves_list(problem)
            yielded == wor[1].yielded
        IN /\ Elems(moves) = {m \in DOMAIN yielded : m.i <= m.j}
           /\ Elems(moves) = local_moves(problem)
           /\ \A m \in Elems(moves) : Count(moves, m) = 1
           /\ \A m \in DOMAIN yielded :
                yielded[m] <= (IF m \in Elems(moves) THEN 1 ELSE 0)
           /\ wor[1].gen.done => \A m \in Elems(moves) : yielded[m] = 1

\* C11 witness: with two containers the generator is exhausted after both
\* range_1 and the range_2 of idx_1 = 0 were shuffled into the order 1, 0.
C11_Witness ==
    /\ variant = "base" /\ problem.n = 2 /\ wor # None
    /\ wor[1].gen.done
    /\ wor[1].gen.range_1 = <<1, 0>> /\ wor[1].gen.range_2 = <<1, 0>>

\* C12 (as claimed): in both variants lower_bound() is None in every
\* Complete state and a number in every other state, so that exactly one of
\* objective() and lower_bound() is defined.
C12_ExactlyOneDefined ==
    LET obj == IF variant = "base" THEN objective(problem, sol)
               ELSE tsp_objective(problem, sol)
        lb == IF variant = "base" THEN lower_bound(problem, sol)
              ELSE tsp_lower_bound(problem, sol)
    IN err = "none" =>
        /\ Complete => (lb = None /\ obj # None)
        /\ ~Complete => (lb # None /\ obj = None)

\* the length of the sequence, and its length when every unit is in it
\* and a closed tour is back at its start
Length == IF variant = "base" THEN Len(sol.containers) ELSE Len(sol.path)

FullLength == IF variant = "base" THEN problem.n ELSE problem.nnodes + 1

\* C13: objective() is None in every state whose sequence is shorter than
\* that of a Complete state, and a number when it has that length; in a
\* Complete state built by adds it is the cost of the whole route: entry
\* cost, the transitions between consecutive containers and the route from
\* the last container in its direction to the plant; for a closed tour the
\* sum of the distances along the path, the floats added in the order of
\* the path, the edge back to start included.
C13_ObjectiveIsRouteCost ==
    /\ err = "none" =>
            ((IF variant = "base" THEN objective(problem, sol)
              ELSE tsp_objective(problem, sol)) = None) = (Length < FullLength)
    /\ (last \in {"init", "add"} /\ Length = FullLength) =>
            IF variant = "base"
            THEN objective(problem, sol)
                    = Some(RouteCost(problem, sol)
                           + problem.container_to_plant
                                [sol.directions[Len(sol.directions)]]
                                [sol.containers[Len(sol.containers)]])
            ELSE /\ tsp_objective(problem, sol) = Some(PathLength(problem, sol.path))
                 /\ sol.path[Len(sol.path)] = sol.start

\* C13 witness: the tour 0,1,0 over the points (0,0) and (1,2), closed by
\* its second add, whose length 2 * sqrt(5) is no whole number.
C13_Witness ==
    /\ variant = "tsp" /\ last = "add" /\ Length = FullLength
    /\ problem = tsp_from_textio(TspInputText(2, "scatter"))
    /\ sol.path = <<0, 1, 0>>
    /\ float_lt(float(4), sol.dist) /\ float_lt(sol.dist, float(5))

\* the unit-square instance: points (0,0), (0,1), (1,1), (1,0)
UnitSquare == tsp_from_textio(TspInputText(4, "square"))

\* the double 0.8284271247461898 = 0x1.a827999fcef30p-1, which is
\* 2 * sqrt(2) - 2 up to the rounding of the floats
TwoDiagonalsLessTwoSides == [sign |-> 0, man |-> <<3888, 4071, 7782, 5380, 1>>, exp |-> -53]

\* the double 4.82842712474619 = 0x1.3504f333f9de6p+2, which is
\* 2 + 2 * sqrt(2) up to the rounding of the floats
TwoSidesTwoDiagonals == [sign |-> 0, man |-> <<7654, 6652, 5068, 1696, 1>>, exp |-> -50]

\* the Complete tour 0,1,2,3,0 of scenario A is the solution
TourRoundSquare ==
    /\ variant = "tsp" /\ problem = UnitSquare
    /\ sol.start = 0 /\ sol.path = <<0, 1, 2, 3, 0>> /\ err = "none"

\* C14 (as claimed): on the tour 0,1,2,3,0 round the unit square
\* objective_incr_local(LocalMove(1, 3)) is 0 and step(LocalMove(1, 3))
\* leaves objective() as it was.
C14_ScenarioB_DeltaZero ==
    TourRoundSquare =>
        /\ tsp_objective_incr_local(problem, sol, tsp_LocalMove(1, 3)) = float(0)
        /\ tsp_objective(problem, tsp_step(problem, sol, tsp_LocalMove(1, 3)).sol)
                = tsp_objective(problem, sol)

\* C14 (amended): on the tour 0,1,2,3,0 round the unit square
\* objective_incr_local(LocalMove(1, 3)) is not 0 but 0.8284271247461898,
\* the two diagonals the move puts in the place of two sides, and
\* step(LocalMove(1, 3)) gives the tour 0,2,1,3,0 and raises objective()
\* from 4.0 to 4.82842712474619.
C14_ScenarioB_DeltaTwoDiagonals ==
    TourRoundSquare =>
        LET delta == tsp_objective_incr_local(problem, sol, tsp_LocalMove(1, 3))
            r == tsp_step(problem, sol, tsp_LocalMove(1, 3))
        IN /\ delta = TwoDiagonalsLessTwoSides
           /\ r.err = "none"
           /\ r.sol.path = <<0, 2, 1, 3, 0>>
           /\ tsp_objective(problem, sol) = Some(float(4))
           /\ tsp_objective(problem, r.sol) = Some(TwoSidesTwoDiagonals)

\* C14 witness: the tour 0,1,2,3,0 round the unit square, reached by a step
\* (the move back from 0,2,1,3,0).
C14_Witness == TourRoundSquare /\ last = "step"

\* C15: on the unit square, empty_solution() followed by add(0,1), add(1,2),
\* add(2,3), add(3,0): no add raises, objective() is None after each of the
\* first three, and after the fourth is_feasible() is true and objective()
\* is the perimeter, four sides.
C15_ScenarioA_Perimeter ==
    (variant = "tsp" /\ problem = UnitSquare /\ sol = tsp_empty_solution(problem)) =>
        LET r1 == tsp_add(problem, sol, tsp_Component(0, 1))
            r2 == tsp_add(problem, r1.sol, tsp_Component(1, 2))
            r3 == tsp_add(problem, r2.sol, tsp_Component(2, 3))
            r4 == tsp_add(problem, r3.sol, tsp_Component(3, 0))
        IN /\ \A r \in {r1, r2, r3, r4} : r.err = "none"
           /\ \A r \in {r1, r2, r3} :
                tsp_objective(problem, r.sol) = None /\ ~tsp_is_feasible(problem, r.sol)
           /\ tsp_is_feasible(problem, r4.sol)
           /\ tsp_objective(problem, r4.sol) = Some(float(4))
           /\ r4.sol.path = <<0, 1, 2, 3, 0>>

\* C15 witness: the state the four adds of scenario A lead to.
C15_Witness ==
    /\ variant = "tsp" /\ problem = UnitSquare /\ last = "add"
    /\ sol.start = 0 /\ sol.path = <<0, 1, 2, 3, 0>> /\ sol.used = 0..3
    /\ set_len(sol.unused) = 0 /\ sol.dist = float(4)

\* the components of add_moves() in the order it yields them
AddMovesInOrder ==
    IF variant = "base"
    THEN Flatten([k \in 1..set_len(sol.not_picked) |->
                    [d \in 1..2 |-> Component(iter(sol.not_picked)[k], d - 1)]])
    ELSE IF Len(sol.path) < problem.nnodes
    THEN [k \in 1..set_len(sol.unused) |->
                tsp_Component(sol.path[Len(sol.path)], iter(sol.unused)[k])]
    ELSE IF Len(sol.path) = problem.nnodes
    THEN <<tsp_Component(sol.path[Len(sol.path)], sol.start)>>
    ELSE <<>>

\* the cost of going on from the last element to the component c: the entry
\* cost when the sequence is empty
\* a cost is less than another: ints in the orientation variant, floats
\* on a closed tour
CostLess(a, b) == IF variant = "base" THEN a < b ELSE float_lt(a, b)

StepCost(c) ==
    IF variant = "base"
    THEN (IF Len(sol.containers) = 0 THEN problem.depot_to_container[c.direction][c.node]
          ELSE problem.container_to_container
                    [2 * sol.directions[Len(sol.directions)] + c.direction]
                    [sol.containers[Len(sol.containers)]][c.node])
    ELSE problem.dist[c.u][c.v]

\* C16 (as claimed): in every state that is not Complete heuristic_add_move()
\* returns the first component of add_moves(), in the order add_moves()
\* yields them, whose cost from the last element is the least.
C16_GreedyPicksFirstCheapest ==
    (err = "none" /\ ~Complete) =>
        LET moves == AddMovesInOrder
            first == Min({k \in 1..Len(moves) :
                            \A other \in 1..Len(moves) :
                                ~CostLess(StepCost(moves[other]), StepCost(moves[k]))})
        IN IF variant = "base"
           THEN /\ heuristic_best_candidate(problem, sol).idx # None
                /\ heuristic_add_move(problem, sol) = Some(moves[first])
           ELSE tsp_heuristic_add_move(problem, sol) = Some(moves[first])

\* x is a float: 0 or a mantissa of DBL_MANT_DIG binary digits
IsFloat(x) ==
    /\ DOMAIN x = {"sign", "man", "exp"}
    /\ x.man = <<>> \/ BigBits(x.man) = DBL_MANT_DIG

\* C18: the evaluation routines leave the solution as it was. In the
\* orientation variant lower_bound_incr_add(c), for every c of add_moves(),
\* returns a number and leaves containers, directions, picked, the
\* elements of not_picked and obj_value as before the call; the order in
\* which a loop runs through not_picked is no part of its value.
\* (objective_incr_local of both variants and lower_bound_incr_add of the
\* closed tour assign nothing to the object; they return a number for every
\* component of add_moves() and every move of local_moves() of a Complete
\* solution.)
C18_EvaluationIsPure ==
    err = "none" =>
        IF variant = "base"
        THEN /\ \A c \in add_moves(sol) :
                    LET r == lower_bound_incr_add(problem, sol, c)
                    IN /\ r.err = "none" /\ r.value # None
                       /\ r.sol.containers = sol.containers
                       /\ r.sol.directions = sol.directions
                       /\ r.sol.picked = sol.picked
                       /\ Keys(r.sol.not_picked) = Keys(sol.not_picked)
                       /\ set_len(r.sol.not_picked) = set_len(sol.not_picked)
                       /\ r.sol.obj_value = sol.obj_value
             /\ Complete => \A m \in local_moves(problem) :
                    objective_incr_local(problem, sol, m) \in Int
        ELSE /\ \A c \in tsp_add_moves(problem, sol) :
                    IsFloat(tsp_lower_bound_incr_add(problem, sol, c))
             /\ Complete => \A m \in tsp_local_moves(sol) :
                    IsFloat(tsp_objective_incr_local(problem, sol, m))

\* C18 witness: an orientation solution with two containers still to pick,
\* where lower_bound_incr_add takes one out of not_picked and puts it back,
\* and the increment is not 0.
C18_Witness ==
    /\ variant = "base" /\ set_len(sol.not_picked) = 2
    /\ \E c \in add_moves(sol) : lower_bound_incr_add(problem, sol, c).value # Some(0)

\* C19 (as claimed): for a Complete tour output() has one line per point,
\* n lines: the path in visiting order from start, without the start at
\* the end again.
C19_OutputOmitsReturn ==
    (variant = "tsp" /\ err = "none" /\ Complete) =>
        /\ Len(tsp_output(sol)) = problem.nnodes
        /\ tsp_output(sol) = [k \in 1..problem.nnodes |-> str(sol.path[k])]

\* the number of adds that built the sequence: its length, the start of a
\* closed tour not counted
Adds == IF variant = "base" THEN Len(sol.containers) ELSE Len(sol.path) - 1

\* the number of units of the instance
Units == IF variant = "base" THEN problem.n ELSE problem.nnodes

\* C20: in every Complete state add_moves() yields nothing and
\* heuristic_add_move() returns None; in every other state add_moves()
\* yields a component; every add of a component of add_moves() lengthens the
\* sequence by one and the state is Complete exactly when n adds were made,
\* so n adds from empty_solution() reach Complete and no more can follow.
C20_CompleteIsTerminal ==
    /\ [](/\ Complete => /\ (IF variant = "base" THEN add_moves(sol)
                             ELSE tsp_add_moves(problem, sol)) = {}
                         /\ (IF variant = "base" THEN heuristic_add_move(problem, sol)
                             ELSE tsp_heuristic_add_move(problem, sol)) = None
          /\ ~Complete => (IF variant = "base" THEN add_moves(sol)
                           ELSE tsp_add_moves(problem, sol)) # {}
          /\ Complete <=> Adds = Units
          /\ Adds <= Units)
    /\ [][/\ last' = "add" => (err' = "none" /\ Adds' = Adds + 1)
          /\ last' # "add" => Adds' = Adds]_vars

\* C20 witness: a closed tour not starting at node 0 that the last of its
\* n adds has made Complete.
C20_Witness ==
    /\ variant = "tsp" /\ last = "add" /\ Complete /\ sol.start # 0
    /\ problem.nnodes = 3 /\ Adds = 3

\* C17: after t = s.copy() the copy has the content of s, and from then on
\* no add, step or perturb on s changes the copy (sequence, orientations,
\* visited and unvisited set, accumulated cost) and none on the copy
\* changes s, whether the call returns or raises.
C17_CopyIsIndependent ==
    [][/\ last' = "copy" => Content(copied') = Content(sol) /\ sol' = sol
       /\ (twin # None /\ last' \in {"add", "step", "perturb"}) => copied' = copied
       /\ (twin # None /\ last' \in {"copy.add", "copy.step", "copy.perturb"}) =>
                sol' = sol]_vars

\* C17 witness: two containers and their copy, both Complete, that a step on
\* the copy has swapped there and left as they were in the solution.
C17_Witness ==
    /\ variant = "base" /\ twin # None /\ last = "copy.step" /\ err = "none"
    /\ Complete /\ Len(sol.containers) = 2
    /\ Len(copied.containers) = 2 /\ copied.containers[1] = sol.containers[2]
    /\ copied.containers[2] = sol.containers[1]

\* C21: closed-tour random_local_move() returns None exactly when the path
\* has fewer than 4 elements; otherwise it returns, whatever is drawn, a move
\* that local_moves() yields, with 1 <= i and i + 2 <= j <= len(path) - 1,
\* and every move that local_moves() yields can be drawn.
C21_RandomMoveIsLocalMove ==
    variant = "tsp" =>
        LET drawn == tsp_random_local_move(sol)
        IN /\ (None \in drawn) <=> (Len(sol.path) < 4)
           /\ Len(sol.path) < 4 => drawn = {None}
           /\ Len(sol.path) >= 4 =>
                /\ drawn = {Some(m) : m \in tsp_local_moves(sol)}
                /\ \A m \in drawn :
                        1 <= m[1].i /\ m[1].i + 2 <= m[1].j /\ m[1].j <= Len(sol.path) - 1

\* C21 witness: a Complete tour of four points that a perturb has left,
\* with three moves to draw from.
C21_Witness ==
    /\ variant = "tsp" /\ last = "perturb" /\ err = "none"
    /\ Len(sol.path) = 5
    /\ Cardinality(tsp_random_local_move(sol)) = 3

\* C22: orientation variant, whenever exactly one container is not picked,
\* lower_bound_incr_add(c) returns 0, for every component c (of add_moves()
\* or not) and every cost table, and leaves the solution as it was.
C22_LastIncrementIsZero ==
    (variant = "base" /\ set_len(sol.not_picked) = 1) =>
        \A node \in 0..(problem.n - 1), direction \in 0..1 :
            lower_bound_incr_add(problem, sol, Component(node, direction))
                = [sol |-> sol, err |-> "none", value |-> Some(0)]

\* C22 witness: one container picked by an add, one left, and going on to
\* the one left costs something.
C22_Witness ==
    /\ variant = "base" /\ last = "add" /\ set_len(sol.not_picked) = 1
    /\ Len(sol.containers) = 1
    /\ \E c \in add_moves(sol) :
            connection_cost(problem, Component(sol.containers[1], sol.directions[1]), c) > 0

\* C23 (as claimed): for every solution that is not Complete and every
\* component c of add_moves() after which it is still not Complete,
\* lower_bound_incr_add(c) is lower_bound() after add(c) minus lower_bound()
\* before; for a closed tour the same holds for the add that returns to start.
C23_IncrementIsBoundDifference ==
    (err = "none" /\ ~Complete) =>
        IF variant = "base"
        THEN \A c \in add_moves(sol) :
                LET after == add(problem, sol, c).sol
                IN set_len(after.not_picked) > 0 =>
                    lower_bound_incr_add(problem, sol, c).value
                        = Some(lower_bound(problem, after)[1] - lower_bound(problem, sol)[1])
        ELSE \A c \in tsp_add_moves(problem, sol) :
                LET after == tsp_add(problem, sol, c).sol
                IN tsp_lower_bound_incr_add(problem, sol, c)
                        = float_sub(tsp_lower_bound(problem, after)[1],
                                    tsp_lower_bound(problem, sol)[1])

\* C24 (as claimed): from every empty solution the loop
\* "c = heuristic_add_move(); stop if c is None; add(c)" makes exactly n adds,
\* raises nothing and stops where is_feasible() is true and objective() is
\* defined, for every cost table, in both variants.
C24_GreedyConstructs ==
    last = "init" =>
        IF variant = "base"
        THEN LET r == heuristic_construction(problem, sol, 0)
             IN /\ r.err = "none"
                /\ r.adds = problem.n
                /\ is_feasible(problem, r.sol)
                /\ objective(problem, r.sol) # None
        ELSE LET r == tsp_heuristic_construction(problem, sol, 0)
             IN /\ r.err = "none"
                /\ r.adds = problem.nnodes
                /\ tsp_is_feasible(problem, r.sol)
                /\ tsp_objective(problem, r.sol) # None

\* C25: in every state reached by add, step and perturb, is_feasible() is
\* true if and only if objective() is not None, in both variants.
C25_FeasibleIffObjective ==
    IF variant = "base"
    THEN is_feasible(problem, sol) <=> (objective(problem, sol) # None)
    ELSE tsp_is_feasible(problem, sol) <=> (tsp_objective(problem, sol) # None)

\* C25 witness: a step has left an orientation solution of two containers,
\* both in direction 1, feasible and with an objective.
C25_Witness ==
    /\ variant = "base" /\ last = "step" /\ problem.n = 2
    /\ is_feasible(problem, sol) /\ objective(problem, sol) # None
    /\ sol.directions = <<1, 1>>

\* The block of the instance text that holds the costs of the orientation
\* pair (da, db): the blocks come in the order 00, 01, 11, 10.
BlockOfPair(da, db) ==
    CASE da = 0 /\ db = 0 -> 0
      [] da = 0 /\ db = 1 -> 1
      [] da = 1 /\ db = 1 -> 2
      [] da = 1 /\ db = 0 -> 3

\* entry [a][b] of block number block of the instance text f: the blocks
\* follow the four lines of depot and plant costs
BlockEntry(f, block, a, b) == f.lines[4 + block * f.n + a + 1][b + 1]

\* the instance texts the problem of the state was read from
TextsOfProblem ==
    {f \in {InputText(n, seed) : n \in 1..MaxN, seed \in 0..MaxSeed} :
        from_textio(f) = problem}

\* C26: for every instance text, the cost that connection_cost uses for
\* going from container a in direction da to container b in direction db is
\* entry [a][b] of the block of the pair (da, db), the blocks being read in
\* the order 00, 01, 11, 10; the rows heuristic_add_move() compares are the
\* rows of the blocks of (d, 0) and (d, 1), and add charges that entry.
C26_BlockOrder ==
    variant = "base" =>
        \A f \in TextsOfProblem :
            /\ \A a \in 0..(f.n - 1), b \in 0..(f.n - 1), da \in 0..1, db \in 0..1 :
                    connection_cost(problem, Component(a, da), Component(b, db))
                        = BlockEntry(f, BlockOfPair(da, db), a, b)
            /\ Len(sol.containers) > 0 =>
                    LET a == sol.containers[Len(sol.containers)]
                        da == sol.directions[Len(sol.directions)]
                    IN /\ \A db \in 0..1, b \in 0..(f.n - 1) :
                            heuristic_candidates(problem, sol)[db + 1][b]
                                = BlockEntry(f, BlockOfPair(da, db), a, b)
                       /\ \A c \in add_moves(sol) :
                            add(problem, sol, c).sol.obj_value
                                = sol.obj_value
                                  + BlockEntry(f, BlockOfPair(da, c.direction), a, c.node)

\* C26 witness: an add has put a container in direction 0 after one in
\* direction 1, at a place where the blocks of the pairs 10 and 11 differ.
C26_Witness ==
    /\ variant = "base" /\ last = "add" /\ Len(sol.containers) = 2
    /\ sol.directions = <<1, 0>>
    /\ \E f \in TextsOfProblem :
            BlockEntry(f, 3, sol.containers[1], sol.containers[2])
                # BlockEntry(f, 2, sol.containers[1], sol.containers[2])

====
